---- MODULE Spec2Model ----
(***************************************************************************)
(* Chordify: a Chord-style ring of key-value nodes (node.py, storage.py,   *)
(* hashing.py, net.py).  A node is identified by its ring id; a NodeRef is *)
(* modelled by that id.  Strings (record values) are sequences of          *)
(* one-character strings, so that "a" + "," + "b" is a real concatenation. *)
(***************************************************************************)
EXTENDS Integers, Sequences, FiniteSets, TLC

\* ---------------------------------------------------------------- bounds
\* Longest tracked history of INSERTs on one key since its last DELETE.
MaxHist == 2
\* Forwards a request may make before the 3 s socket timeout of the first
\* hop fires (net.py send_request timeout); at least the ring size.
MaxHops == 4

\* ------------------------------------------------------- identifier space
\* hashing.py MAX_ID, scaled from 2^160: identifiers are 0 .. MAX_ID - 1.
MAX_ID == 8
Ids == 0 .. (MAX_ID - 1)
\* sha1_int("ip:port") of the processes that may run (node.py:17).
NodeIds == {1, 3, 5, 6}
\* The processes that run where data operations are followed as well.
DataNodes == {1, 3, 6}
\* The key strings clients use and the values they insert.
Keys == {"alpha", "beta"}
Values == {<<"a">>, <<"b">>}

\* hashing.py sha1_int, tabulated on the key strings used ("beta" hashes
\* onto a node id, the closed right end of an arc).
sha1_int(key) == CASE key = "alpha" -> 2
                   [] key = "beta" -> 6
                   [] OTHER -> 7

KeyIds == {sha1_int(k) : k \in Keys}

\* in_interval with the left end closed in the wrapped case.
in_interval_closed_left(x, a, b) ==
    IF a = b THEN TRUE
    ELSE IF a < b THEN a < x /\ x <= b
    ELSE x >= a \/ x <= b

\* hashing.py in_interval: x in (a, b] on the circle.
in_interval(x, a, b) ==
    IF a = b THEN TRUE
    ELSE IF a < b THEN a < x /\ x <= b
    ELSE x > a \/ x <= b

\* ------------------------------------------------------------ local store
\* A store is a function from the key ids present to records.
EmptyStore == [kid \in {} |-> 0]

Rec(key, value) == [key |-> key, value |-> value, is_replica |-> FALSE]

\* insert_primary writing the key of the call into a present record.
insert_primary_overwrites_key(data, key_id, key, value) ==
    IF key_id \in DOMAIN data
    THEN [data EXCEPT ![key_id] =
             [@ EXCEPT !.key = key, !.value = @ \o <<",">> \o value,
                       !.is_replica = FALSE]]
    ELSE [kid \in DOMAIN data \cup {key_id} |->
             IF kid = key_id THEN Rec(key, value) ELSE data[kid]]

\* storage.py Storage.insert_primary: concat update, the record's other
\* fields are kept.
insert_primary(data, key_id, key, value) ==
    IF key_id \in DOMAIN data
    THEN [data EXCEPT ![key_id] =
             [@ EXCEPT !.value = @ \o <<",">> \o value, !.is_replica = FALSE]]
    ELSE [kid \in DOMAIN data \cup {key_id} |->
             IF kid = key_id THEN Rec(key, value) ELSE data[kid]]

\* The methods class Storage defines.
StorageMethods ==
    {"insert_primary", "put_replica", "query", "delete", "get_all",
     "get_primary_only"}

\* node.py calls self.storage.insert(key_id, key, value): the attribute
\* lookup on Storage raises AttributeError unless the class defines it.
storage_insert(data, key_id, key, value) ==
    IF "insert" \in StorageMethods
    THEN [raised |-> FALSE, data |-> insert_primary(data, key_id, key, value)]
    ELSE [raised |-> TRUE, data |-> data]

\* storage.py Storage.query: the record or None.
query(data, key_id) ==
    IF key_id \in DOMAIN data
    THEN [found |-> TRUE, key |-> data[key_id].key, value |-> data[key_id].value]
    ELSE [found |-> FALSE, key |-> "", value |-> <<>>]

\* Storage.delete without the membership test: del raises KeyError on an
\* absent key.
delete_unchecked(data, key_id) ==
    [raised |-> key_id \notin DOMAIN data,
     data |-> IF key_id \in DOMAIN data
              THEN [kid \in DOMAIN data \ {key_id} |-> data[kid]]
              ELSE data]

\* storage.py Storage.delete: remove if present, no-op if absent.
delete(data, key_id) ==
    [raised |-> FALSE,
     data |-> IF key_id \in DOMAIN data
              THEN [kid \in DOMAIN data \ {key_id} |-> data[kid]]
              ELSE data]

\* storage.py Storage.get_all: a copy of the mapping.
get_all(data) == data

\* ------------------------------------------------------------------ state
VARIABLES
    successor,      \* node.successor of each process
    predecessor,    \* node.predecessor of each process
    store,          \* node.storage.data of each process
    pc,             \* position of each process in __main__
    boot,           \* args.bootstrap_port of a joining process
    member,         \* the process has joined and has not departed
    hist,           \* per key: values of the INSERTs completed since the last DELETE
    lastOp,         \* per key: the last completed data operation
    last,           \* the last request made and its response
    thr,            \* the handler threads serving client INSERTs (net.py:72-78)
    call,           \* a function of hashing.py applied to arguments
    heap            \* a Storage object: its dicts, their records, a get_all result

vars == <<successor, predecessor, store, pc, boot, member, hist, lastOp,
          last, thr, call, heap>>

ring == <<successor, predecessor, store, pc, boot, member>>
ghost == <<hist, lastOp>>
aux == <<thr, call, heap>>

\* The connections whose handler threads are followed step by step; the
\* client of thread 1 inserts "a", the client of thread 2 inserts "b".
Threads == {1, 2}
value_of(t) == IF t = 1 THEN <<"a">> ELSE <<"b">>

IdleThread == [pc |-> "idle", at |-> 0, key |-> "", hops |-> 0, status |-> ""]
NoCall == [fn |-> "none", x |-> 0, a |-> 0, b |-> 0, result |-> FALSE]

\* The objects of a Storage whose __init__ has run: self.data is the dict
\* with id 1 and is empty, there are no records, get_all has returned
\* nothing yet (snap 0), no method has been called.
NewStorage ==
    [dicts |-> [id \in {1} |-> EmptyStore],
     recs |-> <<>>,
     snap |-> 0,
     op |-> "__init__", key |-> "", value |-> <<>>,
     calls |-> 0]

JoinPcs == {"two_set_succ", "two_set_pred", "two_transfer", "start",
            "get_pred", "set_pred", "set_succ", "transfer"}

\* net.py start_server: the process accepts connections.
Listening(n) == pc[n] = "serving"

Members == {n \in NodeIds : member[n]}

\* No join is in flight.
AtRest == \A n \in NodeIds : pc[n] \notin JoinPcs

Resp(op, node, key, status, found, value) ==
    [op |-> op, node |-> node, key |-> key, status |-> status,
     found |-> found, value |-> value]

\* node.py Node.__init__ for every process; one bootstrap node of the set
\* S runs start_server directly (node.py:506 skipped, 656).
InitFrom(S) ==
    /\ successor = [n \in NodeIds |-> n]
    /\ predecessor = [n \in NodeIds |-> n]
    /\ store = [n \in NodeIds |-> EmptyStore]
    /\ \E b \in S :
          /\ pc = [n \in NodeIds |-> IF n = b THEN "serving" ELSE "off"]
          /\ member = [n \in NodeIds |-> n = b]
    /\ boot = [n \in NodeIds |-> n]
    /\ hist = [k \in Keys |-> <<>>]
    /\ lastOp = [k \in Keys |-> "none"]
    /\ last = Resp("none", 0, "", "OK", FALSE, <<>>)

\* No connection is open and no function is being applied.
InitAux ==
    /\ thr = [t \in Threads |-> IdleThread]
    /\ call = NoCall
    /\ heap = NewStorage

\* ---------------------------------------------------------------- routing
\* node.py Node.is_responsible.
is_responsible(n, key_id) == in_interval(key_id, predecessor[n], n)

\* The alone test of _do_depart, FIND_SUCCESSOR and JOIN_REQUEST.
alone(n) == successor[n] = n /\ predecessor[n] = n

\* FIND_SUCCESSOR testing the node's own arc (predecessor, self] where the
\* code tests (self, successor].
RECURSIVE find_successor_own_arc(_, _, _)
find_successor_own_arc(n, target_id, hops) ==
    IF alone(n) THEN [status |-> "OK", successor |-> successor[n]]
    ELSE IF in_interval(target_id, predecessor[n], n)
         THEN [status |-> "OK", successor |-> successor[n]]
    ELSE IF hops = 0 \/ ~Listening(successor[n])
         THEN [status |-> "ERROR", successor |-> n]
    ELSE find_successor_own_arc(successor[n], target_id, hops - 1)

\* node.py handle_message FIND_SUCCESSOR with forward_to_successor: the
\* reply of node n for target_id.  A forward to a process that does not
\* listen raises in send_request and handle_client replies ERROR; a chain
\* that never answers ends in the socket timeout.
RECURSIVE find_successor(_, _, _)
find_successor(n, target_id, hops) ==
    IF alone(n) THEN [status |-> "OK", successor |-> successor[n]]
    ELSE IF in_interval(target_id, n, successor[n])
         THEN [status |-> "OK", successor |-> successor[n]]
    ELSE IF hops = 0 \/ ~Listening(successor[n])
         THEN [status |-> "ERROR", successor |-> n]
    ELSE find_successor(successor[n], target_id, hops - 1)

\* The dispatch shared by INSERT, QUERY and DELETE: the node that acts
\* locally on key_id for a request entering at n, or an ERROR.
RECURSIVE route(_, _, _)
route(n, key_id, hops) ==
    IF is_responsible(n, key_id) THEN [status |-> "OK", at |-> n]
    ELSE IF hops = 0 \/ ~Listening(successor[n])
         THEN [status |-> "ERROR", at |-> n]
    ELSE route(successor[n], key_id, hops - 1)

\* ------------------------------------------------------- message handlers
\* The records of data whose key id is in kids, as the items list of a
\* BULK_INSERT (ascending key id).
RECURSIVE items_of(_, _)
items_of(data, kids) ==
    IF kids = {} THEN <<>>
    ELSE LET kid == CHOOSE x \in kids : \A y \in kids : x <= y
         IN <<[key_id |-> kid, key |-> data[kid].key, value |-> data[kid].value]>>
            \o items_of(data, kids \ {kid})

\* node.py handle_message BULK_INSERT: the loop over items; an exception
\* of storage.insert leaves what was stored before it.
RECURSIVE bulk_insert(_, _)
bulk_insert(data, items) ==
    IF items = <<>> THEN [raised |-> FALSE, data |-> data]
    ELSE LET it == Head(items)
             r == storage_insert(data, it.key_id, it.key, it.value)
         IN IF r.raised THEN r ELSE bulk_insert(r.data, Tail(items))

\* Deleting every key id of kids from data (the loop of TRANSFER_KEYS).
delete_all(data, kids) == [kid \in DOMAIN data \ kids |-> data[kid]]

\* TRANSFER_KEYS that takes equal bounds for an empty interval.
transfer_keys_strict_interval(s, new_node) ==
    LET left == predecessor[s]
        right == new_node
        all_local == get_all(store[s])
        to_delete == {kid \in DOMAIN all_local :
                         left # right /\ in_interval(kid, left, right)}
        to_move == items_of(all_local, to_delete)
        sent == bulk_insert(store[new_node], to_move)
    IN IF to_move = <<>>
       THEN [status |-> "OK", moved |-> 0, at_s |-> store[s],
             at_new |-> store[new_node],
             left |-> left, right |-> right, selected |-> to_delete,
             bulk |-> "none"]
       ELSE IF ~Listening(new_node)
       THEN [status |-> "ERROR", moved |-> 0, at_s |-> store[s],
             at_new |-> store[new_node],
             left |-> left, right |-> right, selected |-> to_delete,
             bulk |-> "refused"]
       ELSE [status |-> "OK", moved |-> Len(to_move),
             at_s |-> delete_all(store[s], to_delete),
             at_new |-> sent.data,
             left |-> left, right |-> right, selected |-> to_delete,
             bulk |-> IF sent.raised THEN "ERROR" ELSE "OK"]

\* node.py handle_message TRANSFER_KEYS at node s for new_node: the stores
\* of s and of new_node afterwards and the reply.  send_request to a
\* process that does not listen raises before anything is deleted; the
\* response of BULK_INSERT is not looked at.  Also reported: the two
\* bounds, the key ids selected and the outcome of the BULK_INSERT
\* ("none": not sent, "refused": no connection, else the status answered).
transfer_keys(s, new_node) ==
    LET left == predecessor[s]
        right == new_node
        all_local == get_all(store[s])
        to_delete == {kid \in DOMAIN all_local : in_interval(kid, left, right)}
        to_move == items_of(all_local, to_delete)
        sent == bulk_insert(store[new_node], to_move)
    IN IF to_move = <<>>
       THEN [status |-> "OK", moved |-> 0, at_s |-> store[s],
             at_new |-> store[new_node],
             left |-> left, right |-> right, selected |-> to_delete,
             bulk |-> "none"]
       ELSE IF ~Listening(new_node)
       THEN [status |-> "ERROR", moved |-> 0, at_s |-> store[s],
             at_new |-> store[new_node],
             left |-> left, right |-> right, selected |-> to_delete,
             bulk |-> "refused"]
       ELSE [status |-> "OK", moved |-> Len(to_move),
             at_s |-> delete_all(store[s], to_delete),
             at_new |-> sent.data,
             left |-> left, right |-> right, selected |-> to_delete,
             bulk |-> IF sent.raised THEN "ERROR" ELSE "OK"]

\* The store function after TRANSFER_KEYS at s for new_node.
StoreAfterTransfer(s, new_node) ==
    LET t == transfer_keys(s, new_node)
    IN [n \in NodeIds |-> IF n = new_node /\ new_node # s THEN t.at_new
                          ELSE IF n = s THEN t.at_s
                          ELSE store[n]]

\* What TRANSFER_KEYS at s for new_node did (node.py:207-242): its two
\* bounds, the key ids it selected, the outcome of its BULK_INSERT, data.moved
\* of its reply, and the two stores before and after.
transfer_report(s, new_node) ==
    LET t == transfer_keys(s, new_node)
        after == StoreAfterTransfer(s, new_node)
    IN [new_node |-> new_node, left |-> t.left, right |-> t.right,
        selected |-> t.selected, bulk |-> t.bulk, moved |-> t.moved,
        before_s |-> store[s], before_new |-> store[new_node],
        after_s |-> after[s], after_new |-> after[new_node]]

\* ------------------------------------------------------------------- join
\* A request of __main__ to a process that does not listen raises out of
\* send_request and ends the joining process.
Crash(n) ==
    /\ pc' = [pc EXCEPT ![n] = "off"]
    /\ successor' = [successor EXCEPT ![n] = n]
    /\ predecessor' = [predecessor EXCEPT ![n] = n]
    /\ boot' = [boot EXCEPT ![n] = n]
    /\ UNCHANGED <<store, member>>
    /\ UNCHANGED aux

\* node.py __main__ step 1 with handle_message JOIN_REQUEST at bootstrap b.
JoinRequestStep(n, b) ==
    /\ pc[n] = "off"
    /\ member[b] /\ Listening(b)
    /\ IF alone(b)
       THEN /\ successor' = [successor EXCEPT ![b] = n, ![n] = b]
            /\ predecessor' = [predecessor EXCEPT ![b] = n, ![n] = b]
            /\ pc' = [pc EXCEPT ![n] = "two_set_succ"]
            /\ boot' = [boot EXCEPT ![n] = b]
            /\ last' = Resp("JOIN_REQUEST", b, "", "OK", FALSE, <<>>)
       ELSE LET resp == find_successor(b, n, MaxHops)
            IN IF resp.status # "OK"
               THEN /\ UNCHANGED <<successor, predecessor, pc, boot>>
                    /\ last' = Resp("JOIN_REQUEST", b, "", "ERROR", FALSE, <<>>)
               ELSE /\ successor' = [successor EXCEPT ![n] = resp.successor]
                    /\ predecessor' = predecessor
                    /\ pc' = [pc EXCEPT ![n] = "get_pred"]
                    /\ boot' = [boot EXCEPT ![n] = b]
                    /\ last' = Resp("JOIN_REQUEST", b, "", "OK", FALSE, <<>>)
    /\ UNCHANGED <<store, member, ghost>>
    /\ UNCHANGED aux

\* A join started while no other join is in flight.
JoinRequest(n, b) == AtRest /\ JoinRequestStep(n, b)

\* node.py __main__ two-node case: SET_SUCCESSOR to the bootstrap.
TwoSetSuccessor(n) ==
    /\ pc[n] = "two_set_succ"
    /\ IF Listening(boot[n])
       THEN /\ successor' = [successor EXCEPT ![boot[n]] = n]
            /\ pc' = [pc EXCEPT ![n] = "two_set_pred"]
            /\ UNCHANGED <<predecessor, store, boot, member>>
       ELSE Crash(n)
    /\ last' = Resp("SET_SUCCESSOR", boot[n], "", "OK", FALSE, <<>>)
    /\ UNCHANGED ghost
    /\ UNCHANGED aux

\* SET_PREDECESSOR of the two-node case carrying the joining node's
\* successor where the code sends the joining node itself.
TwoSetPredecessor_sends_successor(n) ==
    /\ pc[n] = "two_set_pred"
    /\ IF Listening(boot[n])
       THEN /\ predecessor' = [predecessor EXCEPT ![boot[n]] = successor[n]]
            /\ pc' = [pc EXCEPT ![n] = "two_transfer"]
            /\ UNCHANGED <<successor, store, boot, member>>
       ELSE Crash(n)
    /\ last' = Resp("SET_PREDECESSOR", boot[n], "", "OK", FALSE, <<>>)
    /\ UNCHANGED ghost
    /\ UNCHANGED aux

\* node.py __main__ two-node case: SET_PREDECESSOR to the bootstrap.
TwoSetPredecessor(n) ==
    /\ pc[n] = "two_set_pred"
    /\ IF Listening(boot[n])
       THEN /\ predecessor' = [predecessor EXCEPT ![boot[n]] = n]
            /\ pc' = [pc EXCEPT ![n] = "two_transfer"]
            /\ UNCHANGED <<successor, store, boot, member>>
       ELSE Crash(n)
    /\ last' = Resp("SET_PREDECESSOR", boot[n], "", "OK", FALSE, <<>>)
    /\ UNCHANGED ghost
    /\ UNCHANGED aux

\* node.py __main__ normal case step 2: GET_PREDECESSOR at the successor.
GetPredecessor(n) ==
    /\ pc[n] = "get_pred"
    /\ IF Listening(successor[n])
       THEN /\ predecessor' = [predecessor EXCEPT ![n] = predecessor[successor[n]]]
            /\ pc' = [pc EXCEPT ![n] = "set_pred"]
            /\ UNCHANGED <<successor, store, boot, member>>
       ELSE Crash(n)
    /\ last' = Resp("GET_PREDECESSOR", successor[n], "", "OK", FALSE, <<>>)
    /\ UNCHANGED ghost
    /\ UNCHANGED aux

\* Step 3 sending the newcomer's predecessor where the code sends the
\* newcomer itself.
SetPredecessor_sends_pred(n) ==
    /\ pc[n] = "set_pred"
    /\ IF Listening(successor[n])
       THEN /\ predecessor' = [predecessor EXCEPT ![successor[n]] = predecessor[n]]
            /\ pc' = [pc EXCEPT ![n] = "set_succ"]
            /\ UNCHANGED <<successor, store, boot, member>>
       ELSE Crash(n)
    /\ last' = Resp("SET_PREDECESSOR", successor[n], "", "OK", FALSE, <<>>)
    /\ UNCHANGED ghost
    /\ UNCHANGED aux

\* node.py __main__ normal case step 3: SET_PREDECESSOR at the successor.
SetPredecessor(n) ==
    /\ pc[n] = "set_pred"
    /\ IF Listening(successor[n])
       THEN /\ predecessor' = [predecessor EXCEPT ![successor[n]] = n]
            /\ pc' = [pc EXCEPT ![n] = "set_succ"]
            /\ UNCHANGED <<successor, store, boot, member>>
       ELSE Crash(n)
    /\ last' = Resp("SET_PREDECESSOR", successor[n], "", "OK", FALSE, <<>>)
    /\ UNCHANGED ghost
    /\ UNCHANGED aux

\* Step 4 sent to the successor where the code sends it to the predecessor.
SetSuccessor_to_succ(n) ==
    /\ pc[n] = "set_succ"
    /\ IF Listening(successor[n])
       THEN /\ successor' = [successor EXCEPT ![successor[n]] = n]
            /\ pc' = [pc EXCEPT ![n] = "transfer"]
            /\ UNCHANGED <<predecessor, store, boot, member>>
       ELSE Crash(n)
    /\ last' = Resp("SET_SUCCESSOR", successor[n], "", "OK", FALSE, <<>>)
    /\ UNCHANGED ghost
    /\ UNCHANGED aux

\* node.py __main__ normal case step 4: SET_SUCCESSOR at the predecessor.
SetSuccessor(n) ==
    /\ pc[n] = "set_succ"
    /\ IF Listening(predecessor[n])
       THEN /\ successor' = [successor EXCEPT ![predecessor[n]] = n]
            /\ pc' = [pc EXCEPT ![n] = "transfer"]
            /\ UNCHANGED <<predecessor, store, boot, member>>
       ELSE Crash(n)
    /\ last' = Resp("SET_SUCCESSOR", predecessor[n], "", "OK", FALSE, <<>>)
    /\ UNCHANGED ghost
    /\ UNCHANGED aux

\* node.py __main__ last request of both cases: TRANSFER_KEYS at the
\* successor; its response is not looked at.
TransferKeys(n) ==
    /\ pc[n] \in {"transfer", "two_transfer"}
    /\ IF Listening(successor[n])
       THEN /\ store' = StoreAfterTransfer(successor[n], n)
            /\ pc' = [pc EXCEPT ![n] = "start"]
            /\ last' = Resp("TRANSFER_KEYS", successor[n], "",
                            transfer_keys(successor[n], n).status, FALSE,
                            transfer_report(successor[n], n))
            /\ UNCHANGED <<successor, predecessor, boot, member>>
       ELSE /\ Crash(n)
            /\ last' = Resp("TRANSFER_KEYS", successor[n], "", "ERROR", FALSE, <<>>)
    /\ UNCHANGED ghost
    /\ UNCHANGED aux

\* node.py __main__ line 656, net.py start_server: the newcomer listens.
StartServer(n) ==
    /\ pc[n] = "start"
    /\ pc' = [pc EXCEPT ![n] = "serving"]
    /\ member' = [member EXCEPT ![n] = TRUE]
    /\ boot' = [boot EXCEPT ![n] = n]
    /\ last' = Resp("START", n, "", "OK", FALSE, <<>>)
    /\ UNCHANGED <<successor, predecessor, store, ghost>>
    /\ UNCHANGED aux

\* ----------------------------------------------------------------- depart
\* _do_depart without the SET_SUCCESSOR request to the predecessor.
do_depart_no_set_successor(d) ==
    LET succ == successor[d]
        pred == predecessor[d]
        all_local == get_all(store[d])
        items == items_of(all_local, DOMAIN all_local)
        sent == items # <<>>
        nb == IF sent THEN 1 ELSE 0
        store1 == IF sent /\ Listening(succ)
                  THEN [store EXCEPT ![succ] = bulk_insert(store[succ], items).data]
                  ELSE store
        succ1 == successor
        pred1 == [predecessor EXCEPT ![succ] = pred]
    IN IF alone(d)
       THEN [raised |-> FALSE, successor |-> successor,
             predecessor |-> predecessor, store |-> store,
             requests |-> 0]
       ELSE IF sent /\ ~Listening(succ)
       THEN [raised |-> TRUE, successor |-> successor,
             predecessor |-> predecessor, store |-> store,
             requests |-> 1]
       ELSE IF ~Listening(pred)
       THEN [raised |-> TRUE, successor |-> successor,
             predecessor |-> predecessor, store |-> store1,
             requests |-> nb + 1]
       ELSE IF ~Listening(succ)
       THEN [raised |-> TRUE, successor |-> succ1,
             predecessor |-> predecessor, store |-> store1,
             requests |-> 2]
       ELSE [raised |-> FALSE, successor |-> succ1,
             predecessor |-> pred1, store |-> store1,
             requests |-> nb + 2]

\* _do_depart sending itself in SET_PREDECESSOR where the code sends its
\* predecessor.
do_depart_sends_self(d) ==
    LET succ == successor[d]
        pred == predecessor[d]
        all_local == get_all(store[d])
        items == items_of(all_local, DOMAIN all_local)
        sent == items # <<>>
        nb == IF sent THEN 1 ELSE 0
        store1 == IF sent /\ Listening(succ)
                  THEN [store EXCEPT ![succ] = bulk_insert(store[succ], items).data]
                  ELSE store
        succ1 == [successor EXCEPT ![pred] = succ]
        pred1 == [predecessor EXCEPT ![succ] = d]
    IN IF alone(d)
       THEN [raised |-> FALSE, successor |-> successor,
             predecessor |-> predecessor, store |-> store,
             requests |-> 0]
       ELSE IF sent /\ ~Listening(succ)
       THEN [raised |-> TRUE, successor |-> successor,
             predecessor |-> predecessor, store |-> store,
             requests |-> 1]
       ELSE IF ~Listening(pred)
       THEN [raised |-> TRUE, successor |-> successor,
             predecessor |-> predecessor, store |-> store1,
             requests |-> nb + 1]
       ELSE IF ~Listening(succ)
       THEN [raised |-> TRUE, successor |-> succ1,
             predecessor |-> predecessor, store |-> store1,
             requests |-> 2]
       ELSE [raised |-> FALSE, successor |-> succ1,
             predecessor |-> pred1, store |-> store1,
             requests |-> nb + 2]

\* _do_depart without the test for a single node.
do_depart_no_alone_check(d) ==
    LET succ == successor[d]
        pred == predecessor[d]
        all_local == get_all(store[d])
        items == items_of(all_local, DOMAIN all_local)
        sent == items # <<>>
        nb == IF sent THEN 1 ELSE 0
        store1 == IF sent /\ Listening(succ)
                  THEN [store EXCEPT ![succ] = bulk_insert(store[succ], items).data]
                  ELSE store
        succ1 == [successor EXCEPT ![pred] = succ]
        pred1 == [predecessor EXCEPT ![succ] = pred]
    IN IF sent /\ ~Listening(succ)
       THEN [raised |-> TRUE, successor |-> successor,
             predecessor |-> predecessor, store |-> store,
             requests |-> 1]
       ELSE IF ~Listening(pred)
       THEN [raised |-> TRUE, successor |-> successor,
             predecessor |-> predecessor, store |-> store1,
             requests |-> nb + 1]
       ELSE IF ~Listening(succ)
       THEN [raised |-> TRUE, successor |-> succ1,
             predecessor |-> predecessor, store |-> store1,
             requests |-> 2]
       ELSE [raised |-> FALSE, successor |-> succ1,
             predecessor |-> pred1, store |-> store1,
             requests |-> nb + 2]

\* node.py Node._do_depart at node d: the pointers and stores afterwards.
\* raised: a send_request to a process that does not listen raised, and
\* the rest of the function did not run.  requests: the number of
\* send_request calls made.
do_depart(d) ==
    LET succ == successor[d]
        pred == predecessor[d]
        all_local == get_all(store[d])
        items == items_of(all_local, DOMAIN all_local)
        sent == items # <<>>
        nb == IF sent THEN 1 ELSE 0
        store1 == IF sent /\ Listening(succ)
                  THEN [store EXCEPT ![succ] = bulk_insert(store[succ], items).data]
                  ELSE store
        succ1 == [successor EXCEPT ![pred] = succ]
        pred1 == [predecessor EXCEPT ![succ] = pred]
    IN IF alone(d)
       THEN [raised |-> FALSE, successor |-> successor,
             predecessor |-> predecessor, store |-> store,
             requests |-> 0]
       ELSE IF sent /\ ~Listening(succ)
       THEN [raised |-> TRUE, successor |-> successor,
             predecessor |-> predecessor, store |-> store,
             requests |-> 1]
       ELSE IF ~Listening(pred)
       THEN [raised |-> TRUE, successor |-> successor,
             predecessor |-> predecessor, store |-> store1,
             requests |-> nb + 1]
       ELSE IF ~Listening(succ)
       THEN [raised |-> TRUE, successor |-> succ1,
             predecessor |-> predecessor, store |-> store1,
             requests |-> 2]
       ELSE [raised |-> FALSE, successor |-> succ1,
             predecessor |-> pred1, store |-> store1,
             requests |-> nb + 2]

\* DEPART after which the node resets its pointers to itself and clears
\* its store.
Depart_resets_itself(d) ==
    /\ AtRest
    /\ member[d] /\ Listening(d)
    /\ LET r == do_depart(d)
       IN /\ successor' = [r.successor EXCEPT ![d] = d]
          /\ predecessor' = [r.predecessor EXCEPT ![d] = d]
          /\ store' = [r.store EXCEPT ![d] = EmptyStore]
          /\ member' = [member EXCEPT ![d] = alone(d) \/ r.raised]
          /\ last' = Resp("DEPART", d, "", IF r.raised THEN "ERROR" ELSE "OK",
                          ~alone(d), <<r.requests>>)
    /\ UNCHANGED <<pc, boot, ghost>>
    /\ UNCHANGED aux

\* node.py handle_message DEPART at member d (client.py depart).  The
\* node keeps running; it has left the ring when the rewire was done.
Depart(d) ==
    /\ AtRest
    /\ member[d] /\ Listening(d)
    /\ LET r == do_depart(d)
       IN /\ successor' = r.successor
          /\ predecessor' = r.predecessor
          /\ store' = r.store
          /\ member' = [member EXCEPT ![d] = alone(d) \/ r.raised]
          /\ last' = Resp("DEPART", d, "", IF r.raised THEN "ERROR" ELSE "OK",
                          ~alone(d), <<r.requests>>)
    /\ UNCHANGED <<pc, boot, ghost>>
    /\ UNCHANGED aux

\* ------------------------------------------------------- data operations
\* node.py handle_message INSERT for a request entering at member e.
insert_reply(e, key, value) ==
    LET key_id == sha1_int(key)
        r == route(e, key_id, MaxHops)
        s == storage_insert(store[r.at], key_id, key, value)
    IN IF r.status # "OK" THEN [status |-> "ERROR", at |-> r.at, data |-> store[r.at]]
       ELSE IF s.raised THEN [status |-> "ERROR", at |-> r.at, data |-> s.data]
       ELSE [status |-> "OK", at |-> r.at, data |-> s.data]

\* node.py handle_message QUERY (single key) for a request entering at e.
query_reply(e, key) ==
    LET key_id == sha1_int(key)
        r == route(e, key_id, MaxHops)
        result == query(store[r.at], key_id)
    IN IF r.status # "OK"
       THEN [status |-> "ERROR", found |-> FALSE, key |-> "", value |-> <<>>]
       ELSE [status |-> "OK", found |-> result.found, key |-> result.key,
             value |-> result.value]

\* node.py handle_message DELETE for a request entering at member e.
delete_reply(e, key) ==
    LET key_id == sha1_int(key)
        r == route(e, key_id, MaxHops)
        s == delete(store[r.at], key_id)
    IN IF r.status # "OK" THEN [status |-> "ERROR", at |-> r.at, data |-> store[r.at]]
       ELSE IF s.raised THEN [status |-> "ERROR", at |-> r.at, data |-> s.data]
       ELSE [status |-> "OK", at |-> r.at, data |-> s.data]

\* client.py insert: INSERT{key, value} sent to member e.
Insert(e, key, value) ==
    /\ AtRest
    /\ member[e] /\ Listening(e)
    /\ Len(hist[key]) < MaxHist
    /\ LET r == insert_reply(e, key, value)
       IN /\ store' = [store EXCEPT ![r.at] = r.data]
          /\ last' = Resp("INSERT", r.at, key, r.status, FALSE, value)
    /\ hist' = [hist EXCEPT ![key] = Append(@, value)]
    /\ lastOp' = [lastOp EXCEPT ![key] = "INSERT"]
    /\ UNCHANGED <<successor, predecessor, pc, boot, member>>
    /\ UNCHANGED aux

\* client.py query: QUERY{key} sent to member e.
Query(e, key) ==
    /\ AtRest
    /\ member[e] /\ Listening(e)
    /\ LET r == query_reply(e, key)
       IN last' = Resp("QUERY", 0, key, r.status, r.found, r.value)
    /\ UNCHANGED <<ring, ghost>>
    /\ UNCHANGED aux

\* client.py delete: DELETE{key} sent to member e.
Delete(e, key) ==
    /\ AtRest
    /\ member[e] /\ Listening(e)
    /\ LET r == delete_reply(e, key)
       IN /\ store' = [store EXCEPT ![r.at] = r.data]
          /\ last' = Resp("DELETE", r.at, key, r.status, FALSE, <<>>)
    /\ hist' = [hist EXCEPT ![key] = <<>>]
    /\ lastOp' = [lastOp EXCEPT ![key] = "DELETE"]
    /\ UNCHANGED <<successor, predecessor, pc, boot, member>>
    /\ UNCHANGED aux

\* ------------------------------------------------------------ traversals
\* OVERLAY stopping when the node itself is start_id, where the code tests
\* its successor.
RECURSIVE overlay_stops_at_self(_, _, _, _)
overlay_stops_at_self(n, start_id, acc, hops) ==
    LET acc1 == Append(acc, n)
    IN IF n = start_id THEN [status |-> "OK", ring |-> acc1]
       ELSE IF hops = 0 \/ ~Listening(successor[n])
       THEN [status |-> "ERROR", ring |-> <<>>]
       ELSE overlay_stops_at_self(successor[n], start_id, acc1, hops - 1)

\* node.py handle_message OVERLAY at node n for a request that carries
\* start_id and acc: append itself, stop when the successor is start_id,
\* otherwise send the request on to the successor.
RECURSIVE overlay(_, _, _, _)
overlay(n, start_id, acc, hops) ==
    LET acc1 == Append(acc, n)
    IN IF successor[n] = start_id THEN [status |-> "OK", ring |-> acc1]
       ELSE IF hops = 0 \/ ~Listening(successor[n])
       THEN [status |-> "ERROR", ring |-> <<>>]
       ELSE overlay(successor[n], start_id, acc1, hops - 1)

\* OVERLAY from a client (no start_id): start_id is the entry node's id
\* and acc is empty.
overlay_reply(e) == overlay(e, e, <<>>, MaxHops)

\* client.py overlay: OVERLAY{} sent to member e.
Overlay(e) ==
    /\ AtRest
    /\ member[e] /\ Listening(e)
    /\ LET r == overlay_reply(e)
       IN last' = Resp("OVERLAY", e, "", r.status, FALSE, r.ring)
    /\ UNCHANGED <<ring, ghost>>
    /\ UNCHANGED aux

\* QUERY_ALL forwarding the accumulator without the node's own store.
RECURSIVE query_all_skips_own(_, _, _, _)
query_all_skips_own(n, start_id, acc, hops) ==
    IF successor[n] = start_id THEN [status |-> "OK", result |-> acc]
    ELSE IF hops = 0 \/ ~Listening(successor[n])
    THEN [status |-> "ERROR", result |-> acc]
    ELSE query_all_skips_own(successor[n], start_id, acc, hops - 1)

\* node.py handle_message QUERY_ALL at node n: put its own store in acc
\* under its "ip:port", stop when the successor is start_id, otherwise
\* send the request on to the successor.
RECURSIVE query_all(_, _, _, _)
query_all(n, start_id, acc, hops) ==
    LET acc1 == [m \in DOMAIN acc \cup {n} |->
                    IF m = n THEN get_all(store[n]) ELSE acc[m]]
    IN IF successor[n] = start_id THEN [status |-> "OK", result |-> acc1]
       ELSE IF hops = 0 \/ ~Listening(successor[n])
       THEN [status |-> "ERROR", result |-> acc1]
       ELSE query_all(successor[n], start_id, acc1, hops - 1)

\* node.py handle_message QUERY with key "*" at entry node e: QUERY_ALL is
\* sent to the successor with start_id the entry node and acc holding the
\* entry node's store.
query_star_reply(e) ==
    IF ~Listening(successor[e])
    THEN [status |-> "ERROR", result |-> [m \in {e} |-> get_all(store[e])]]
    ELSE query_all(successor[e], e, [m \in {e} |-> get_all(store[e])], MaxHops)

\* client.py query *: QUERY{key: "*"} sent to member e.
QueryStar(e) ==
    /\ AtRest
    /\ member[e] /\ Listening(e)
    /\ LET r == query_star_reply(e)
       IN last' = Resp("QUERY_ALL", e, "*", r.status, FALSE, r.result)
    /\ UNCHANGED <<ring, ghost>>
    /\ UNCHANGED aux

\* The message types handle_message has a branch for.
Catalog ==
    {"PING", "BULK_INSERT", "TRANSFER_KEYS", "GET_SUCCESSOR",
     "GET_PREDECESSOR", "SET_PREDECESSOR", "SET_SUCCESSOR", "FIND_SUCCESSOR",
     "JOIN_REQUEST", "INSERT", "QUERY", "DELETE", "QUERY_ALL", "DEPART",
     "OVERLAY"}

\* Requests whose type no branch handles, and PING: the type field absent,
\* empty, a type of another protocol version, a catalog type in lower case.
Msg(has_type, type) == [has_type |-> has_type, type |-> type]
Requests ==
    {Msg(FALSE, ""), Msg(TRUE, ""), Msg(TRUE, "REPAIR_RING"),
     Msg(TRUE, "insert"), Msg(TRUE, "PING")}

NoData == [f \in {} |-> ""]

\* handle_message taking an empty type for an unknown one.
dispatch_empty_is_unknown(msg) ==
    IF ~msg.has_type
    THEN [status |-> "ERROR", data |-> NoData, branch |-> "validation"]
    ELSE IF msg.type \in Catalog
    THEN [status |-> "OK", data |-> NoData, branch |-> msg.type]
    ELSE [status |-> "UNKNOWN",
          data |-> [f \in {"received_type"} |-> msg.type],
          branch |-> "fallthrough"]

\* node.py handle_message: "if not msg_type" answers ERROR, a type with a
\* branch is handled by it, any other type falls through to UNKNOWN.
dispatch(msg) ==
    IF ~msg.has_type \/ msg.type = ""
    THEN [status |-> "ERROR", data |-> NoData, branch |-> "validation"]
    ELSE IF msg.type \in Catalog
    THEN [status |-> "OK", data |-> NoData, branch |-> msg.type]
    ELSE [status |-> "UNKNOWN",
          data |-> [f \in {"received_type"} |-> msg.type],
          branch |-> "fallthrough"]

\* A request of Requests is delivered to a listening process n; PING
\* answers the node's identity and pointers.
Dispatch(n, msg) ==
    /\ Listening(n)
    /\ LET r == dispatch(msg)
       IN last' = Resp("DISPATCH", n, msg.type, r.status, msg.has_type,
                       IF r.branch = "PING"
                       THEN [f \in {"node_id", "successor", "predecessor"} |->
                               CASE f = "node_id" -> n
                                 [] f = "successor" -> successor[n]
                                 [] OTHER -> predecessor[n]]
                       ELSE r.data)
    /\ UNCHANGED <<ring, ghost>>
    /\ UNCHANGED aux

\* -------------------------------------------------------- specification
Init == InitFrom(DataNodes) /\ InitAux

\* Joins, departs and data operations, each run to completion before the
\* next starts.
Next ==
    \/ \E n, b \in DataNodes : JoinRequest(n, b)
    \/ \E n \in NodeIds : TwoSetSuccessor(n)
    \/ \E n \in NodeIds : TwoSetPredecessor(n)
    \/ \E n \in NodeIds : GetPredecessor(n)
    \/ \E n \in NodeIds : SetPredecessor(n)
    \/ \E n \in NodeIds : SetSuccessor(n)
    \/ \E n \in NodeIds : TransferKeys(n)
    \/ \E n \in NodeIds : StartServer(n)
    \/ \E d \in NodeIds : Depart(d)
    \/ \E e \in NodeIds, k \in Keys, v \in Values : Insert(e, k, v)
    \/ \E e \in NodeIds, k \in Keys : Query(e, k)
    \/ \E e \in NodeIds, k \in Keys : Delete(e, k)
    \/ \E e \in NodeIds : Overlay(e)
    \/ \E e \in NodeIds : QueryStar(e)

Spec == Init /\ [][Next]_vars

\* Membership only: joins and departs of all the processes.
InitRing == InitFrom(NodeIds) /\ InitAux

NextRing ==
    \/ \E n, b \in NodeIds : JoinRequest(n, b)
    \/ \E n \in NodeIds : TwoSetSuccessor(n)
    \/ \E n \in NodeIds : TwoSetPredecessor(n)
    \/ \E n \in NodeIds : GetPredecessor(n)
    \/ \E n \in NodeIds : SetPredecessor(n)
    \/ \E n \in NodeIds : SetSuccessor(n)
    \/ \E n \in NodeIds : TransferKeys(n)
    \/ \E n \in NodeIds : StartServer(n)
    \/ \E d \in NodeIds : Depart(d)
    \/ \E e \in NodeIds : Overlay(e)
    \/ \E e \in NodeIds : QueryStar(e)
    \/ \E n \in NodeIds, msg \in Requests : Dispatch(n, msg)

SpecRing == InitRing /\ [][NextRing]_vars

\* net.py start_server: the connection of a client INSERT{key, value_of(t)}
\* is accepted at member e and a handler thread is started for it.
InsertAccept(t, e, key) ==
    /\ thr[t].pc = "idle"
    /\ AtRest
    /\ member[e] /\ Listening(e)
    /\ thr' = [thr EXCEPT ![t] = [pc |-> "handling", at |-> e, key |-> key,
                                  hops |-> MaxHops, status |-> ""]]
    /\ UNCHANGED <<ring, ghost, last, call, heap>>

\* node.py handle_message INSERT up to the storage call: the responsible
\* node goes on to its store, any other node sends the request to its
\* successor, where a thread of that node handles it.
InsertHandle(t) ==
    /\ thr[t].pc = "handling"
    /\ LET n == thr[t].at
       IN thr' = [thr EXCEPT ![t] =
              IF is_responsible(n, sha1_int(thr[t].key))
              THEN [@ EXCEPT !.pc = "storing"]
              ELSE IF thr[t].hops = 0 \/ ~Listening(successor[n])
              THEN [@ EXCEPT !.pc = "done", !.status = "ERROR"]
              ELSE [@ EXCEPT !.at = successor[n], !.hops = @ - 1]]
    /\ UNCHANGED <<ring, ghost, last, call, heap>>

\* node.py:332 in the thread of the responsible node: the storage call,
\* one critical section of the store, and the reply (an exception is
\* turned into an ERROR reply by net.py handle_client).
InsertStore(t) ==
    /\ thr[t].pc = "storing"
    /\ LET n == thr[t].at
           r == storage_insert(store[n], sha1_int(thr[t].key), thr[t].key,
                               value_of(t))
       IN /\ store' = [store EXCEPT ![n] = r.data]
          /\ thr' = [thr EXCEPT ![t] =
                 [@ EXCEPT !.pc = "done",
                           !.status = IF r.raised THEN "ERROR" ELSE "OK"]]
    /\ UNCHANGED <<successor, predecessor, pc, boot, member, ghost, last, call, heap>>

\* The ring forms by joins while two client INSERTs are served by
\* interleaved handler threads.
NextConc ==
    \/ \E n \in DataNodes, b \in DataNodes : JoinRequest(n, b)
    \/ \E n \in DataNodes : TwoSetSuccessor(n)
    \/ \E n \in DataNodes : TwoSetPredecessor(n)
    \/ \E n \in DataNodes : GetPredecessor(n)
    \/ \E n \in DataNodes : SetPredecessor(n)
    \/ \E n \in DataNodes : SetSuccessor(n)
    \/ \E n \in DataNodes : TransferKeys(n)
    \/ \E n \in DataNodes : StartServer(n)
    \/ \E t \in Threads, e \in DataNodes, key \in Keys : InsertAccept(t, e, key)
    \/ \E t \in Threads : InsertHandle(t)
    \/ \E t \in Threads : InsertStore(t)

SpecConc == Init /\ [][NextConc]_vars

\* The stores a Storage object holds after calls of insert_primary, the
\* insertion method class Storage defines.
PrimaryStores ==
    LET one == insert_primary(EmptyStore, sha1_int("alpha"), "alpha", <<"a">>)
        two == insert_primary(EmptyStore, sha1_int("beta"), "beta", <<"b">>)
    IN {EmptyStore, one, two,
        insert_primary(one, sha1_int("beta"), "beta", <<"b">>)}

\* The item lists of the BULK_INSERT requests delivered.
Item(key, value) == [key_id |-> sha1_int(key), key |-> key, value |-> value]
ItemLists ==
    {<<>>, <<Item("alpha", <<"a">>)>>, <<Item("beta", <<"b">>)>>,
     <<Item("alpha", <<"a">>), Item("beta", <<"b">>)>>}

\* The most deliveries of one BULK_INSERT request that are counted.
MaxDeliveries == 2

\* TRANSFER_KEYS{new_node} delivered to a listening process s.
HandleTransferKeys(s, new_node) ==
    /\ AtRest
    /\ Listening(s)
    /\ new_node # s
    /\ store' = StoreAfterTransfer(s, new_node)
    /\ last' = Resp("TRANSFER_KEYS", s, "", transfer_keys(s, new_node).status,
                    FALSE, transfer_report(s, new_node))
    /\ UNCHANGED <<successor, predecessor, pc, boot, member, ghost, aux>>

\* node.py handle_message BULK_INSERT{items} delivered to a listening
\* process n: the reply (an exception becomes an ERROR reply in net.py
\* handle_client, data.count is in an OK reply only), the store before the
\* first of the consecutive deliveries of this request, and their number.
HandleBulkInsert(n, items) ==
    /\ AtRest
    /\ Listening(n)
    /\ LET r == bulk_insert(store[n], items)
           again == /\ last.op = "BULK_INSERT" /\ last.node = n
                    /\ last.value.items = items
       IN /\ again => last.value.deliveries < MaxDeliveries
          /\ store' = [store EXCEPT ![n] = r.data]
          /\ last' = Resp("BULK_INSERT", n, "",
                          IF r.raised THEN "ERROR" ELSE "OK", FALSE,
                          [items |-> items,
                           count |-> IF r.raised THEN -1 ELSE Len(items),
                           deliveries |-> IF again
                                          THEN last.value.deliveries + 1
                                          ELSE 1,
                           before |-> IF again THEN last.value.before
                                      ELSE store[n]])
    /\ UNCHANGED <<successor, predecessor, pc, boot, member, ghost, aux>>

\* Nodes whose Storage holds records after insert_primary: one bootstrap
\* node of DataNodes runs start_server with any store of PrimaryStores.
InitHandler ==
    /\ successor = [n \in NodeIds |-> n]
    /\ predecessor = [n \in NodeIds |-> n]
    /\ \E b \in DataNodes, data \in PrimaryStores :
          /\ pc = [n \in NodeIds |-> IF n = b THEN "serving" ELSE "off"]
          /\ member = [n \in NodeIds |-> n = b]
          /\ store = [n \in NodeIds |-> IF n = b THEN data ELSE EmptyStore]
    /\ boot = [n \in NodeIds |-> n]
    /\ hist = [k \in Keys |-> <<>>]
    /\ lastOp = [k \in Keys |-> "none"]
    /\ last = Resp("none", 0, "", "OK", FALSE, <<>>)
    /\ InitAux

NextHandler ==
    \/ \E n \in DataNodes, b \in DataNodes : JoinRequest(n, b)
    \/ \E n \in DataNodes : TwoSetSuccessor(n)
    \/ \E n \in DataNodes : TwoSetPredecessor(n)
    \/ \E n \in DataNodes : GetPredecessor(n)
    \/ \E n \in DataNodes : SetPredecessor(n)
    \/ \E n \in DataNodes : SetSuccessor(n)
    \/ \E n \in DataNodes : TransferKeys(n)
    \/ \E n \in DataNodes : StartServer(n)
    \/ \E d \in DataNodes : Depart(d)
    \/ \E s \in DataNodes, n \in DataNodes : HandleTransferKeys(s, n)
    \/ \E n \in DataNodes, items \in ItemLists : HandleBulkInsert(n, items)

SpecHandler == InitHandler /\ [][NextHandler]_vars

\* A pointer setter that refuses the receiving node's own id.
set_pointer_checks_self(n, type, has_node, node) ==
    IF ~has_node \/ node = n
    THEN [status |-> "ERROR", successor |-> successor[n],
          predecessor |-> predecessor[n], data |-> NoData]
    ELSE IF type = "SET_PREDECESSOR"
    THEN [status |-> "OK", successor |-> successor[n], predecessor |-> node,
          data |-> [f \in {"predecessor"} |-> node]]
    ELSE [status |-> "OK", successor |-> node, predecessor |-> predecessor[n],
          data |-> [f \in {"successor"} |-> node]]

\* node.py handle_message SET_PREDECESSOR / SET_SUCCESSOR at node n
\* (Node.set_predecessor, Node.set_successor): the reply and n's two
\* pointers afterwards.  has_node: data.node is present and not empty.
set_pointer(n, type, has_node, node) ==
    IF ~has_node
    THEN [status |-> "ERROR", successor |-> successor[n],
          predecessor |-> predecessor[n], data |-> NoData]
    ELSE IF type = "SET_PREDECESSOR"
    THEN [status |-> "OK", successor |-> successor[n], predecessor |-> node,
          data |-> [f \in {"predecessor"} |-> node]]
    ELSE [status |-> "OK", successor |-> node, predecessor |-> predecessor[n],
          data |-> [f \in {"successor"} |-> node]]

\* SET_PREDECESSOR or SET_SUCCESSOR, with any NodeRef or none in data.node,
\* delivered to a listening process n.
HandleSetPointer(n, type, has_node, node) ==
    /\ AtRest
    /\ Listening(n)
    /\ LET r == set_pointer(n, type, has_node, node)
       IN /\ successor' = [successor EXCEPT ![n] = r.successor]
          /\ predecessor' = [predecessor EXCEPT ![n] = r.predecessor]
          /\ last' = Resp(type, n, "", r.status, has_node,
                          [node |-> node, data |-> r.data])
    /\ UNCHANGED <<store, pc, boot, member, ghost, aux>>

\* Joins of the data nodes, and pointer setters delivered by any peer.
NextSetter ==
    \/ \E n \in DataNodes, b \in DataNodes : JoinRequest(n, b)
    \/ \E n \in DataNodes : TwoSetSuccessor(n)
    \/ \E n \in DataNodes : TwoSetPredecessor(n)
    \/ \E n \in DataNodes : GetPredecessor(n)
    \/ \E n \in DataNodes : SetPredecessor(n)
    \/ \E n \in DataNodes : SetSuccessor(n)
    \/ \E n \in DataNodes : TransferKeys(n)
    \/ \E n \in DataNodes : StartServer(n)
    \/ \E n \in DataNodes, type \in {"SET_PREDECESSOR", "SET_SUCCESSOR"},
          has_node \in BOOLEAN, node \in DataNodes :
          HandleSetPointer(n, type, has_node, node)

SpecSetter == Init /\ [][NextSetter]_vars

\* ------------------------------------------------------ a Storage object
\* The key strings a Storage object is called with: "gamma" and "delta"
\* have the same key_id.
StoreKeys == {"alpha", "beta", "gamma", "delta"}

\* The most method calls made on the Storage object.
MaxCalls == 4

\* The mapping a dict of the heap denotes: key id to record contents.
view(h, id) == [kid \in DOMAIN h.dicts[id] |-> h.recs[h.dicts[id][kid]]]

\* storage.py Storage.insert_primary on the object: a present record dict
\* is updated in place, an absent one is created and entered in self.data.
storage_insert_primary(h, key_id, key, value) ==
    LET data == h.dicts[1]
        after == insert_primary(view(h, 1), key_id, key, value)
    IN IF key_id \in DOMAIN data
       THEN [h EXCEPT !.recs[data[key_id]] = after[key_id]]
       ELSE [h EXCEPT !.recs = Append(@, after[key_id]),
                      !.dicts[1] = [kid \in DOMAIN data \cup {key_id} |->
                                       IF kid = key_id THEN Len(h.recs) + 1
                                       ELSE data[kid]]]

\* storage.py Storage.delete on the object: the entry leaves self.data.
storage_delete(h, key_id) ==
    [h EXCEPT !.dicts[1] = delete(h.dicts[1], key_id).data]

\* get_all returning self.data itself.
get_all_object_alias(h) == [h EXCEPT !.snap = 1]

\* storage.py Storage.get_all on the object: dict(self.data) is a new dict
\* (id 2) with the entries of self.data, referring to the same records.
get_all_object(h) ==
    [h EXCEPT !.dicts = [id \in {1, 2} |-> h.dicts[1]], !.snap = 2]

Called(h, op, key, value) ==
    [h EXCEPT !.op = op, !.key = key, !.value = value, !.calls = @ + 1]

StorageInsertPrimary(key, value) ==
    /\ heap.calls < MaxCalls
    /\ heap' = Called(storage_insert_primary(heap, sha1_int(key), key, value),
                      "insert_primary", key, value)
    /\ UNCHANGED <<ring, ghost, last, thr, call>>

StorageDelete(key) ==
    /\ heap.calls < MaxCalls
    /\ heap' = Called(storage_delete(heap, sha1_int(key)), "delete", key, <<>>)
    /\ UNCHANGED <<ring, ghost, last, thr, call>>

StorageGetAll ==
    /\ heap.calls < MaxCalls
    /\ heap' = Called(get_all_object(heap), "get_all", "", <<>>)
    /\ UNCHANGED <<ring, ghost, last, thr, call>>

InitStorage == InitFrom({1}) /\ InitAux

NextStorage ==
    \/ \E key \in StoreKeys, value \in Values : StorageInsertPrimary(key, value)
    \/ \E key \in StoreKeys : StorageDelete(key)
    \/ StorageGetAll

SpecStorage == InitStorage /\ [][NextStorage]_vars

\* A join started in a ring of two or more members, whether or not other
\* joins are in flight: processes are started independently.
ConcurrentJoinRequest(n, b) ==
    /\ Cardinality(Members) >= 2
    /\ JoinRequestStep(n, b)

\* The first newcomer joins the bootstrap node; later newcomers run their
\* join sequences at the same time, their requests interleaved.
NextJoins ==
    \/ \E n, b \in NodeIds : JoinRequest(n, b)
    \/ \E n, b \in NodeIds : ConcurrentJoinRequest(n, b)
    \/ \E n \in NodeIds : TwoSetSuccessor(n)
    \/ \E n \in NodeIds : TwoSetPredecessor(n)
    \/ \E n \in NodeIds : GetPredecessor(n)
    \/ \E n \in NodeIds : SetPredecessor(n)
    \/ \E n \in NodeIds : SetSuccessor(n)
    \/ \E n \in NodeIds : TransferKeys(n)
    \/ \E n \in NodeIds : StartServer(n)

SpecJoins == InitRing /\ [][NextJoins]_vars

\* in_interval as a function of its arguments: any three identifiers are
\* drawn and the function is applied to them.
ApplyInInterval ==
    /\ call.fn = "args"
    /\ call' = [call EXCEPT !.fn = "in_interval",
                            !.result = in_interval(call.x, call.a, call.b)]
    /\ UNCHANGED <<ring, ghost, last, thr, heap>>

InitInterval ==
    /\ InitFrom({1})
    /\ thr = [t \in Threads |-> IdleThread]
    /\ heap = NewStorage
    /\ \E x \in Ids, a \in Ids, b \in Ids :
          call = [fn |-> "args", x |-> x, a |-> a, b |-> b, result |-> FALSE]

NextInterval == ApplyInInterval

SpecInterval == InitInterval /\ [][NextInterval]_vars

TypeOK ==
    /\ successor \in [NodeIds -> NodeIds]
    /\ predecessor \in [NodeIds -> NodeIds]
    /\ \A n \in NodeIds : DOMAIN store[n] \subseteq KeyIds
    /\ pc \in [NodeIds -> JoinPcs \cup {"off", "serving"}]
    /\ member \in [NodeIds -> BOOLEAN]

\* ------------------------------------------------------ ring properties
\* The members whose arc (predecessor.id, id] holds kid.
Owners(kid) == {n \in Members : is_responsible(n, kid)}

\* The node reached from n by following successor i times.
RECURSIVE walk(_, _)
walk(n, i) == IF i = 0 THEN n ELSE walk(successor[n], i - 1)

\* A process that has departed and still runs with its old pointers.
Departed(n) == pc[n] = "serving" /\ ~member[n]

\* C3 (Partition): whenever no join is in flight, every identifier lies in
\* the arc (predecessor.id, id] of exactly one ring member.
C3_Partition ==
    AtRest => \A kid \in Ids : Cardinality(Owners(kid)) = 1

C3_Witness ==
    /\ AtRest
    /\ Cardinality(Members) = 3
    /\ \E n \in NodeIds : Departed(n)
    /\ \A kid \in Ids : Cardinality(Owners(kid)) = 1

\* C4 (Pointer symmetry): whenever no join is in flight, for all ring
\* members A and B, A.successor = B exactly when B.predecessor = A.
C4_PointerSymmetry ==
    AtRest => \A a, b \in Members : (successor[a] = b) <=> (predecessor[b] = a)

C4_Witness ==
    /\ AtRest
    /\ Cardinality(Members) = 4
    /\ \A a \in Members : successor[a] # predecessor[a]

\* C5 (Ring closure): whenever no join is in flight, following successor
\* from any member visits every member exactly once, visits no departed
\* node, and is back at the start after as many steps as there are members.
C5_RingClosure ==
    AtRest =>
        \A start \in Members :
            LET size == Cardinality(Members)
            IN /\ {walk(start, i) : i \in 0 .. (size - 1)} = Members
               /\ walk(start, size) = start

C5_Witness ==
    /\ AtRest
    /\ Cardinality(Members) = 2
    /\ Cardinality({n \in NodeIds : Departed(n)}) = 2
    /\ \A start \in Members : walk(start, 2) = start /\ walk(start, 1) # start

\* C6 (Routing soundness): whenever no join is in flight, FIND_SUCCESSOR(k)
\* sent to any member replies OK with a member whose arc holds k.
C6_RoutingSoundness ==
    AtRest =>
        \A m \in Members : \A k \in Ids :
            LET resp == find_successor(m, k, MaxHops)
            IN /\ resp.status = "OK"
               /\ resp.successor \in Members
               /\ in_interval(k, predecessor[resp.successor], resp.successor)

\* A request that is forwarded twice before it is answered.
C6_Witness ==
    /\ AtRest
    /\ Cardinality(Members) = 4
    /\ \E m \in Members : \E k \in Ids :
          /\ ~in_interval(k, m, successor[m])
          /\ ~in_interval(k, successor[m], walk(m, 2))
          /\ find_successor(m, k, MaxHops).status = "OK"
          /\ find_successor(m, k, MaxHops).successor = walk(m, 3)

RECURSIVE join_commas(_)
join_commas(vs) ==
    IF vs = <<>> THEN <<>>
    ELSE IF Len(vs) = 1 THEN vs[1]
    ELSE vs[1] \o <<",">> \o join_commas(Tail(vs))

\* The string v occurs in the string value.
contains(value, v) ==
    \E i \in 1 .. (Len(value) - Len(v) + 1) :
        SubSeq(value, i, i + Len(v) - 1) = v

\* C2 (Keys inserted before a join stay reachable): when a newcomer has
\* completed the join sequence and started its listener, QUERY(k) sent to
\* any member replies OK with a record for k, for every key k inserted
\* earlier and not deleted since.
C2_KeysSurviveJoin ==
    last.op = "START" =>
        \A k \in Keys :
            hist[k] # <<>> =>
                \A m \in Members :
                    LET r == query_reply(m, k)
                    IN r.status = "OK" /\ r.found /\ r.key = k

\* C7 (Insert-then-query round trip): in a ring at rest, once INSERT(k, v)
\* has completed, QUERY(k) sent to any member replies OK with a record
\* whose key is k and whose value contains v.
C7_InsertQueryRoundTrip ==
    AtRest =>
        \A k \in Keys :
            \A i \in 1 .. Len(hist[k]) :
                \A m \in Members :
                    LET r == query_reply(m, k)
                    IN /\ r.status = "OK"
                       /\ r.found
                       /\ r.key = k
                       /\ contains(r.value, hist[k][i])

\* C8 (Delete absorption): in a ring at rest, from the completion of
\* DELETE(k) until the next INSERT(k, _) completes, QUERY(k) sent to any
\* member replies OK with no record; and a DELETE of a key that no store
\* holds replies OK and changes no store.
C8_DeleteAbsorption ==
    /\ [](AtRest =>
            \A k \in Keys :
                lastOp[k] = "DELETE" =>
                    \A m \in Members :
                        LET r == query_reply(m, k)
                        IN r.status = "OK" /\ ~r.found)
    /\ [][(last'.op = "DELETE"
            /\ \A n \in NodeIds : sha1_int(last'.key) \notin DOMAIN store[n])
           => (last'.status = "OK" /\ store' = store)]_vars

\* A QUERY of a key whose last operation was a DELETE has answered with no
\* record, in a ring where some entry node has to forward the request.
C8_Witness ==
    /\ AtRest
    /\ Cardinality(Members) >= 2
    /\ last.op = "QUERY" /\ last.status = "OK" /\ ~last.found
    /\ lastOp[last.key] = "DELETE"
    /\ \E m \in Members : route(m, sha1_int(last.key), MaxHops).at # m

\* C9 (Concat semantics): for a key absent from the ring, completed
\* INSERT(k, v1), ..., INSERT(k, vn) with no DELETE between them yield a
\* record whose value is exactly v1,v2,...,vn.
C9_ConcatSemantics ==
    AtRest =>
        \A k \in Keys :
            hist[k] # <<>> =>
                \A m \in Members :
                    LET r == query_reply(m, k)
                    IN /\ r.status = "OK"
                       /\ r.found
                       /\ r.value = join_commas(hist[k])

\* ------------------------------------------------------- bounded routing
\* The forwards to a successor made for a keyed request entering at n
\* (the calls of forward_to_successor along route).
RECURSIVE route_forwards(_, _, _)
route_forwards(n, key_id, hops) ==
    IF is_responsible(n, key_id) THEN 0
    ELSE IF hops = 0 \/ ~Listening(successor[n]) THEN 0
    ELSE 1 + route_forwards(successor[n], key_id, hops - 1)

\* The forwards made for FIND_SUCCESSOR(target_id) entering at n.
RECURSIVE find_successor_forwards(_, _, _)
find_successor_forwards(n, target_id, hops) ==
    IF alone(n) THEN 0
    ELSE IF in_interval(target_id, n, successor[n]) THEN 0
    ELSE IF hops = 0 \/ ~Listening(successor[n]) THEN 0
    ELSE 1 + find_successor_forwards(successor[n], target_id, hops - 1)

\* C11 (Bounded routing): in a ring at rest with n members, an INSERT,
\* QUERY, DELETE or FIND_SUCCESSOR entering at any member is forwarded at
\* most n - 1 times before a reply is produced, and the INSERT reply is OK
\* with stored_at the node responsible for the key.
C11_BoundedRouting ==
    /\ last.op = "INSERT" =>
          /\ last.status = "OK"
          /\ last.node \in Owners(sha1_int(last.key))
    /\ AtRest =>
        \A m \in Members :
            /\ \A kid \in Ids :
                  /\ find_successor_forwards(m, kid, MaxHops) <= Cardinality(Members) - 1
                  /\ find_successor(m, kid, MaxHops).status = "OK"
            /\ \A k \in Keys :
                  /\ route_forwards(m, sha1_int(k), MaxHops) <= Cardinality(Members) - 1
                  /\ route(m, sha1_int(k), MaxHops).status = "OK"
                  /\ query_reply(m, k).status = "OK"
                  /\ delete_reply(m, k).status = "OK"

\* The routing part of C11 alone: the forwards are bounded by n - 1 and the
\* request reaches the responsible member.
RoutingIsBounded ==
    AtRest =>
        \A m \in Members :
            /\ \A kid \in Ids :
                  /\ find_successor_forwards(m, kid, MaxHops) <= Cardinality(Members) - 1
                  /\ find_successor(m, kid, MaxHops).status = "OK"
            /\ \A k \in Keys :
                  /\ route_forwards(m, sha1_int(k), MaxHops) <= Cardinality(Members) - 1
                  /\ route(m, sha1_int(k), MaxHops).status = "OK"
                  /\ route(m, sha1_int(k), MaxHops).at \in Owners(sha1_int(k))

\* C12 (OVERLAY consistency): an OVERLAY sent by a client to a member of a
\* ring at rest replies OK with a list that starts with the entry node,
\* holds every member exactly once and is in successor order, the last
\* entry's successor being the first; an alone node gets the list of itself.
C12_OverlayConsistency ==
    last.op = "OVERLAY" =>
        LET acc == last.value
            size == Len(acc)
        IN /\ last.status = "OK"
           /\ size = Cardinality(Members)
           /\ acc[1] = last.node
           /\ {acc[i] : i \in 1 .. size} = Members
           /\ \A i \in 1 .. (size - 1) : successor[acc[i]] = acc[i + 1]
           /\ successor[acc[size]] = acc[1]
           /\ (alone(last.node) => acc = <<last.node>>)

\* An OVERLAY has answered with three members while a departed node still
\* runs.
C12_Witness ==
    /\ last.op = "OVERLAY" /\ last.status = "OK"
    /\ Len(last.value) = 3
    /\ \E n \in NodeIds : Departed(n)

\* The length of the successor chain from n back to start_id, counted in
\* nodes visited.
RECURSIVE chain_to(_, _, _)
chain_to(n, start_id, fuel) ==
    IF successor[n] = start_id \/ fuel = 0 THEN <<n>>
    ELSE <<n>> \o chain_to(successor[n], start_id, fuel - 1)

\* C13 (Ring-wide query): a QUERY with key "*" sent to a member of a ring
\* at rest terminates with OK and a mapping with exactly one entry per
\* member, each that member's store contents; the traversal ends at the
\* node whose successor is the entry node; a single node gets its own store.
C13_RingWideQuery ==
    last.op = "QUERY_ALL" =>
        LET result == last.value
            e == last.node
        IN /\ last.status = "OK"
           /\ DOMAIN result = Members
           /\ \A m \in Members : result[m] = store[m]
           /\ LET visited == chain_to(successor[e], e, MaxHops)
              IN successor[visited[Len(visited)]] = e
                 /\ DOMAIN result = {e} \cup {visited[i] : i \in 1 .. Len(visited)}
           /\ (alone(e) => DOMAIN result = {e})

\* A ring-wide query has answered with the stores of three members while a
\* departed node still runs.
C13_Witness ==
    /\ last.op = "QUERY_ALL" /\ last.status = "OK"
    /\ Cardinality(DOMAIN last.value) = 3
    /\ \E n \in NodeIds : Departed(n)

\* The identifiers met walking clockwise from a, a itself left out, up to
\* and including b; the whole circle when a = b.
arc(a, b) ==
    LET d == IF a = b THEN MAX_ID ELSE (b - a) % MAX_ID
    IN {(a + i) % MAX_ID : i \in 1 .. d}

\* C14 (in_interval): in_interval(x, a, b) is membership of x in the
\* circular interval (a, b]: a < x <= b when a < b, x > a or x <= b when
\* a > b, true when a = b; a is outside and b inside whenever a # b.
C14_InInterval ==
    call.fn = "in_interval" =>
        LET x == call.x
            a == call.a
            b == call.b
        IN /\ call.result = (x \in arc(a, b))
           /\ (a < b => (call.result <=> (a < x /\ x <= b)))
           /\ (a > b => (call.result <=> (x > a \/ x <= b)))
           /\ (a = b => call.result)
           /\ (a # b /\ x = a => ~call.result)
           /\ (a # b /\ x = b => call.result)

\* in_interval has been applied to the left end of a wrapped interval.
C14_Witness ==
    /\ call.fn = "in_interval"
    /\ call.a > call.b /\ call.x = call.a
    /\ ~call.result

\* value ends in the elements of tail.
ends_in(value, tail) ==
    /\ Len(value) >= Len(tail)
    /\ SubSeq(value, Len(value) - Len(tail) + 1, Len(value)) = tail

\* C15 (Concurrent INSERTs serialize): once the two handler threads have
\* answered INSERTs of values a and b for the same key, the record of that
\* key ends in "a,b" or in "b,a".
C15_ConcurrentInserts ==
    (/\ thr[1].pc = "done" /\ thr[2].pc = "done"
     /\ thr[1].key = thr[2].key)
    => \E n \in Members :
          LET kid == sha1_int(thr[1].key)
          IN /\ is_responsible(n, kid)
             /\ kid \in DOMAIN store[n]
             /\ \/ ends_in(store[n][kid].value, <<"a", ",", "b">>)
                \/ ends_in(store[n][kid].value, <<"b", ",", "a">>)

\* C16 (Dispatch errors): a request with a missing or empty type is
\* answered ERROR, a request with a type outside the catalog is answered
\* UNKNOWN with data.received_type that type; in both cases no pointer and
\* no store of any process changes.
C16_DispatchErrors ==
    [][(/\ last'.op = "DISPATCH"
        /\ (last.op # "DISPATCH" \/ last.node # last'.node
             \/ last.key # last'.key \/ last.found # last'.found)
        /\ last'.key \notin Catalog)
       => /\ (~last'.found \/ last'.key = "") => last'.status = "ERROR"
          /\ (last'.found /\ last'.key # "")
                => /\ last'.status = "UNKNOWN"
                   /\ DOMAIN last'.value = {"received_type"}
                   /\ last'.value["received_type"] = last'.key
          /\ successor' = successor
          /\ predecessor' = predecessor
          /\ store' = store
          /\ pc' = pc /\ member' = member]_vars

\* A member of a ring of three has answered UNKNOWN to a REPAIR_RING
\* request.
C16_Witness ==
    /\ last.op = "DISPATCH" /\ last.key = "REPAIR_RING"
    /\ last.status = "UNKNOWN"
    /\ member[last.node] /\ Cardinality(Members) = 3

\* The last response is one of TRANSFER_KEYS that reached its handler.
TransferHandled == last.op = "TRANSFER_KEYS" /\ DOMAIN last.value # {}

TransferSelectsInterval ==
    TransferHandled =>
        LET v == last.value
        IN /\ v.selected = {kid \in DOMAIN v.before_s :
                               in_interval(kid, v.left, v.new_node)}
           /\ (last.status = "OK" => v.moved = Cardinality(v.selected))
           /\ (v.bulk = "refused" => v.after_s = v.before_s)

\* C18 (Degenerate transfer interval): the join sequence has set
\* S.predecessor to the joining node N before it sends TRANSFER_KEYS to S;
\* whenever S handles TRANSFER_KEYS{new_node: N} with S.predecessor = N,
\* left = right and S selects its entire store.
C18_DegenerateTransferInterval ==
    /\ \A n \in NodeIds :
          pc[n] \in {"transfer", "two_transfer"}
              => predecessor[successor[n]] = n
    /\ TransferHandled =>
          LET v == last.value
          IN v.left = v.new_node
                => /\ v.left = v.right
                   /\ v.selected = DOMAIN v.before_s

\* The TRANSFER_KEYS of a third node's join has selected both records of
\* its successor's store, which lie outside the joining node's arc.
C18_Witness ==
    /\ TransferHandled
    /\ pc[last.value.new_node] = "start"
    /\ Cardinality(Members) = 2
    /\ last.value.left = last.value.new_node
    /\ last.value.selected = {sha1_int("alpha"), sha1_int("beta")}

\* C19 (Two-node bootstrap): JOIN_REQUEST{new_node: N} handled by an alone
\* node B sets B.successor and B.predecessor to N and answers OK with B as
\* both successor and predecessor, which N takes as its pointers; once N
\* has finished the join, B.successor = N, B.predecessor = N,
\* N.successor = B and N.predecessor = B.
C19_TwoNodeBootstrap ==
    [][\A n \in NodeIds, b \in NodeIds :
          /\ (/\ AtRest /\ pc[n] = "off" /\ Listening(b) /\ member[b]
              /\ alone(b)
              /\ pc'[n] # "off")
                => /\ successor'[b] = n /\ predecessor'[b] = n
                   /\ last'.op = "JOIN_REQUEST" /\ last'.status = "OK"
                   /\ pc'[n] = "two_set_succ"
                   /\ successor'[n] = b /\ predecessor'[n] = b
          /\ (/\ pc[n] = "start" /\ pc'[n] = "serving"
              /\ Members = {b} /\ b # n)
                => /\ successor'[b] = n /\ predecessor'[b] = n
                   /\ successor'[n] = b /\ predecessor'[n] = b]_vars

\* A second node has finished its join with a node that was alone.
C19_Witness ==
    /\ last.op = "START"
    /\ Cardinality(Members) = 2
    /\ \A m \in NodeIds : ~Departed(m)
    /\ \E b \in Members : successor[last.node] = b /\ successor[b] = last.node
                          /\ b # last.node

\* data after the item has been stored n times by insert_primary.
RECURSIVE appended(_, _, _)
appended(data, it, n) ==
    IF n = 0 THEN data
    ELSE appended(insert_primary(data, it.key_id, it.key, it.value), it, n - 1)

\* C20 (BULK_INSERT is not idempotent): after the same BULK_INSERT{items}
\* has been delivered twice to a node, each item's record holds the item's
\* value appended twice ("v,v" for a key that was absent), which differs
\* from the record after one delivery, and the reply is OK with count the
\* number of items.
C20_BulkInsertNotIdempotent ==
    (/\ last.op = "BULK_INSERT"
     /\ last.value.items # <<>>
     /\ last.value.deliveries = 2) =>
        LET v == last.value
            n == last.node
        IN /\ last.status = "OK"
           /\ v.count = Len(v.items)
           /\ \A i \in 1 .. Len(v.items) :
                 LET it == v.items[i]
                 IN /\ it.key_id \in DOMAIN store[n]
                    /\ store[n][it.key_id].value
                          = appended(v.before, it, 2)[it.key_id].value
                    /\ store[n][it.key_id].value
                          # appended(v.before, it, 1)[it.key_id].value
                    /\ it.key_id \notin DOMAIN v.before
                          => store[n][it.key_id].value
                                = it.value \o <<",">> \o it.value
\* The step is the handling of a delivered pointer setter.
SetterStep ==
    /\ last'.op \in {"SET_PREDECESSOR", "SET_SUCCESSOR"}
    /\ DOMAIN last'.value # {}
    /\ \/ last.op # last'.op \/ last.node # last'.node
       \/ last.found # last'.found
       \/ DOMAIN last.value = {}
       \/ last.value.node # last'.value.node

\* C21 (Pointer setters): SET_SUCCESSOR{node} and SET_PREDECESSOR{node}
\* overwrite the pointer with node whatever it is, leave the other pointer,
\* every other node and the stores unchanged and answer OK with the new
\* pointer; with data.node missing they answer ERROR and change nothing.
C21_PointerSetters ==
    [][SetterStep =>
          LET n == last'.node
              v == last'.value
              succ == last'.op = "SET_SUCCESSOR"
          IN /\ store' = store /\ pc' = pc /\ member' = member
             /\ \A m \in NodeIds \ {n} :
                   successor'[m] = successor[m]
                   /\ predecessor'[m] = predecessor[m]
             /\ IF last'.found
                THEN /\ last'.status = "OK"
                     /\ successor'[n] = IF succ THEN v.node ELSE successor[n]
                     /\ predecessor'[n] = IF succ THEN predecessor[n] ELSE v.node
                     /\ v.data = IF succ THEN [f \in {"successor"} |-> successor'[n]]
                                 ELSE [f \in {"predecessor"} |-> predecessor'[n]]
                ELSE /\ last'.status = "ERROR"
                     /\ successor'[n] = successor[n]
                     /\ predecessor'[n] = predecessor[n]]_vars

\* A member of a ring of three has been told to take itself as successor
\* and has done so.
C21_Witness ==
    /\ last.op = "SET_SUCCESSOR" /\ DOMAIN last.value # {}
    /\ last.status = "OK"
    /\ last.value.node = last.node
    /\ successor[last.node] = last.node
    /\ predecessor[last.node] # last.node
    /\ Cardinality(Members) = 3

\* The step is the handling of a DEPART request.
DepartStep ==
    /\ last'.op = "DEPART"
    /\ (last.op # "DEPART" \/ last.node # last'.node \/ last.found # last'.found)

\* C22 (Depart when alone is a no-op): DEPART handled by a node whose
\* successor and predecessor are both itself sends no request, leaves all
\* pointers and stores unchanged and answers OK.
C22_DepartAlone ==
    [][\A d \in NodeIds :
          (DepartStep /\ last'.node = d /\ alone(d))
             => /\ last'.status = "OK"
                /\ last'.value = <<0>>
                /\ successor' = successor
                /\ predecessor' = predecessor
                /\ store' = store]_vars

\* A node that is alone again after its peer departed, and holds records,
\* has answered a DEPART.
C22_Witness ==
    /\ last.op = "DEPART" /\ ~last.found /\ last.status = "OK"
    /\ alone(last.node)
    /\ store[last.node] # EmptyStore
    /\ \E n \in NodeIds : Departed(n)

\* The step is a call of insert_primary for a key id that is present with
\* another key string.
CollidingInsert ==
    /\ heap'.op = "insert_primary" /\ heap'.calls = heap.calls + 1
    /\ sha1_int(heap'.key) \in DOMAIN heap.dicts[1]
    /\ view(heap, 1)[sha1_int(heap'.key)].key # heap'.key

\* C23 (Key collision), as claimed: after an insert for a key_id present
\* with a different key string the record's key is the last-written key,
\* its value the old value, a comma and the new value.
C23_LastWrittenKeyWins ==
    [][CollidingInsert =>
          LET kid == sha1_int(heap'.key)
          IN /\ view(heap', 1)[kid].key = heap'.key
             /\ view(heap', 1)[kid].value
                   = view(heap, 1)[kid].value \o <<",">> \o heap'.value]_vars

\* C23 (Key collision), amended: after Storage.insert_primary for a key_id
\* present with a different key string the record's key is still the
\* first-written key, its value the old value, a comma and the new value.
C23_FirstWrittenKeyStays ==
    [][CollidingInsert =>
          LET kid == sha1_int(heap'.key)
          IN /\ view(heap', 1)[kid].key = view(heap, 1)[kid].key
             /\ view(heap', 1)[kid].key # heap'.key
             /\ view(heap', 1)[kid].value
                   = view(heap, 1)[kid].value \o <<",">> \o heap'.value]_vars

\* "gamma" was inserted first and "delta", of the same key_id, after it.
C23_Witness ==
    /\ heap.op = "insert_primary" /\ heap.key = "delta"
    /\ sha1_int("gamma") = sha1_int("delta")
    /\ sha1_int("delta") \in DOMAIN heap.dicts[1]
    /\ view(heap, 1)[sha1_int("delta")].key = "gamma"
    /\ Len(view(heap, 1)[sha1_int("delta")].value) = 3

\* C24 (get_all returns a snapshot): insert_primary and delete calls made
\* after get_all has returned neither add entries to the returned mapping
\* nor remove entries from it.
C24_GetAllSnapshot ==
    [][(/\ heap.snap # 0
        /\ heap'.op \in {"insert_primary", "delete"}
        /\ heap'.calls = heap.calls + 1)
       => /\ heap'.snap = heap.snap
          /\ DOMAIN heap'.dicts[heap.snap] = DOMAIN heap.dicts[heap.snap]
          /\ heap'.dicts[heap.snap] = heap.dicts[heap.snap]]_vars

\* After get_all returned, one of its entries was deleted from the store
\* and a new entry was inserted: the returned mapping has neither change.
C24_Witness ==
    /\ heap.snap = 2
    /\ heap.op \in {"insert_primary", "delete"}
    /\ DOMAIN heap.dicts[2] \ DOMAIN heap.dicts[1] # {}
    /\ DOMAIN heap.dicts[1] \ DOMAIN heap.dicts[2] # {}

\* A handler thread has answered OK to an INSERT.
InsertAcknowledged == \E t \in Threads : thr[t].pc = "done" /\ thr[t].status = "OK"

\* No INSERT is ever acknowledged: every handler thread that reaches its
\* reply answers ERROR.
NoInsertAcknowledged == ~InsertAcknowledged

\* C26 (Concurrent joins keep the ring well-formed): once the newcomers
\* that ran their join sequences at the same time have all finished,
\* pointer symmetry and ring closure hold over all members.
C26_ConcurrentJoins ==
    (AtRest /\ Members = NodeIds) =>
        /\ \A a, b \in Members : (successor[a] = b) <=> (predecessor[b] = a)
        /\ \A start \in Members :
              /\ {walk(start, i) : i \in 0 .. (Cardinality(Members) - 1)} = Members
              /\ walk(start, Cardinality(Members)) = start

\* C27 (Depart leaves the departing node's own state untouched): after
\* DEPART on a non-alone node D, D's successor, predecessor and store are
\* what they were before, so D is responsible for the same key ids as
\* before and handles requests for them itself, without forwarding.
C27_DepartKeepsOwnState ==
    [][\A d \in NodeIds :
          (DepartStep /\ last'.node = d /\ ~alone(d))
             => /\ successor'[d] = successor[d]
                /\ predecessor'[d] = predecessor[d]
                /\ store'[d] = store[d]
                /\ pc'[d] = "serving"
                /\ \A kid \in Ids :
                      /\ is_responsible(d, kid)' = is_responsible(d, kid)
                      /\ is_responsible(d, kid)
                            => /\ route(d, kid, MaxHops)'.status = "OK"
                               /\ route(d, kid, MaxHops)'.at = d
                /\ \A key \in Keys :
                      is_responsible(d, sha1_int(key))
                         => /\ query_reply(d, key)'.status = "OK"
                            /\ query_reply(d, key)'.found
                                  = (sha1_int(key) \in DOMAIN store[d])
                            /\ delete_reply(d, key)'.status = "OK"
                            /\ delete_reply(d, key)'.at = d]_vars

\* A node that held records has departed from a ring of three: it still
\* runs, with its pointers to two different nodes and with its records.
C27_Witness ==
    /\ last.op = "DEPART" /\ last.found /\ last.status = "OK"
    /\ Departed(last.node)
    /\ store[last.node] # EmptyStore
    /\ successor[last.node] # predecessor[last.node]
    /\ successor[last.node] # last.node
    /\ \E kid \in DOMAIN store[last.node] : is_responsible(last.node, kid)

====
